---- MODULE Spec2Model ----
(***************************************************************************)
(* A model of the Vision metrics aggregator (src/src/main.ts): the Stats   *)
(* record, its four update operations, the bounded error log, and the      *)
(* asynchronous getVisionStats with its three system-metric queries.       *)
(*                                                                         *)
(* JavaScript numbers are modelled as exact rationals <<n, d>> in lowest   *)
(* terms with d > 0, extended by NaN = <<0, 0>> and +-Infinity =           *)
(* <<+-1, 0>>; the rounding of IEEE doubles is not modelled. The counters  *)
(* of Stats are integers, since the durations drawn are integers.          *)
(* JavaScript runs one callback at a time: every synchronous method is one *)
(* atomic action, and getVisionStats is cut at each of its awaits. One     *)
(* getVisionStats call is in flight at a time. `returned` holds the        *)
(* settlement of a call in the state right after it settles; the next      *)
(* operation of the aggregator clears it. Definitions whose name extends   *)
(* that of the definition following them (StatsAfterRequestAssign, ...)    *)
(* are faulty variants of it, used to test that a property tells them     *)
(* from the code.                                                          *)
(***************************************************************************)
EXTENDS Integers, Sequences, FiniteSets, TLC

\* ------------------------------------------------------------------ bounds

\* Calls of visionRequest / visionDBQuery / visionDBError / visionError a
\* caller makes in the shallow specifications (Spec, SpecStats).
MaxRequests == 2
MaxDBQueries == 1
MaxDBErrors == 1
MaxErrors == 2
\* Calls of visionError in the specifications about the error log
\* (SpecLog, SpecCaller): more than the capacity of the log.
MaxLogErrors == 12
\* Calls of the other operations in SpecLog and SpecCaller.
MaxLogOther == 1
\* Mutations a caller applies to a returned lastErrors array (SpecCaller).
MaxCallerEdits == 1
\* Iterations of each task (SpecTasks).
MaxIter == 6
\* Calls of each update operation in SpecObserved.
MaxObserved == 2

\* The capacity of the error log (main.ts:57).
Capacity == 10

\* ----------------------------------------------------------------- numbers

NaN == <<0, 0>>
Zero == <<0, 1>>

Abs(x) == IF x < 0 THEN -x ELSE x

RECURSIVE GCD(_, _)
GCD(a, b) == IF b = 0 THEN a ELSE GCD(b, a % b)

\* n / d as a JavaScript number: 0/0 is NaN, x/0 is +-Infinity.
Quot(n, d) ==
    IF d = 0
    THEN IF n = 0 THEN NaN ELSE IF n > 0 THEN <<1, 0>> ELSE <<-1, 0>>
    ELSE LET g == GCD(Abs(n), Abs(d))
             s == IF d < 0 THEN -1 ELSE 1
         IN  <<(s * n) \div g, (s * d) \div g>>

\* a * k and a / k for an integer k > 0 (NaN and Infinity are absorbing).
Times(a, k) == IF a[2] = 0 THEN a ELSE Quot(a[1] * k, a[2])
Over(a, k) == IF a[2] = 0 THEN a ELSE Quot(a[1], a[2] * k)

IsNaN(a) == a = NaN

\* -------------------------------------------------------------- parseFloat

WhiteSpace == {" ", "\n", "\t"}
Digits == {"0", "1", "2", "3", "4", "5", "6", "7", "8", "9"}
DigitVal(c) ==
    CASE c = "0" -> 0 [] c = "1" -> 1 [] c = "2" -> 2 [] c = "3" -> 3
      [] c = "4" -> 4 [] c = "5" -> 5 [] c = "6" -> 6 [] c = "7" -> 7
      [] c = "8" -> 8 [] c = "9" -> 9

RECURSIVE SkipWs(_, _)
SkipWs(s, i) ==
    IF i <= Len(s) /\ s[i] \in WhiteSpace THEN SkipWs(s, i + 1) ELSE i

\* The index after the run of digits of s that starts at i.
RECURSIVE DigitsEnd(_, _)
DigitsEnd(s, i) ==
    IF i <= Len(s) /\ s[i] \in Digits THEN DigitsEnd(s, i + 1) ELSE i

\* The value of the digits s[i] .. s[j-1], read after the value acc.
RECURSIVE DigitsVal(_, _, _, _)
DigitsVal(s, i, j, acc) ==
    IF i >= j THEN acc ELSE DigitsVal(s, i + 1, j, acc * 10 + DigitVal(s[i]))

RECURSIVE Pow10(_)
Pow10(k) == IF k = 0 THEN 1 ELSE 10 * Pow10(k - 1)

\* parseFloat of a string given as its sequence of characters: leading
\* white space is skipped, then an optional sign, digits and an optional
\* fraction are read; what follows is ignored; NaN when no digit was read.
\* (Exponents and the literal "Infinity" are not modelled.)
ParseFloat(s) ==
    LET a == SkipWs(s, 1)
        signed == a <= Len(s) /\ s[a] \in {"-", "+"}
        neg == a <= Len(s) /\ s[a] = "-"
        b == IF signed THEN a + 1 ELSE a
        c == DigitsEnd(s, b)
        hasDot == c <= Len(s) /\ s[c] = "."
        e == IF hasDot THEN DigitsEnd(s, c + 1) ELSE c
        nInt == c - b
        nFrac == IF hasDot THEN e - (c + 1) ELSE 0
        whole == DigitsVal(s, b, c, 0)
        mant == IF hasDot THEN DigitsVal(s, c + 1, e, whole) ELSE whole
    IN  IF nInt + nFrac = 0
        THEN NaN
        ELSE Quot(IF neg THEN -mant ELSE mant, Pow10(nFrac))

\* ------------------------------------------------------------------- state

VARIABLES
    stats,       \* this.stats: the six counters and the reference lastErrors
    heap,        \* the contents of each array object, by address
    now,         \* the clock new Date() reads
    snap,        \* the getVisionStats call in flight: its position and locals
    returned,    \* the settlement of getVisionStats the caller has just been handed
    edits,       \* how many times the caller has mutated a returned array
    task,        \* the position and iteration count of each concurrent task
    obs,         \* an observer's notes: Stats at the call in flight, the last response
    reqCalls,    \* history: the durations passed to visionRequest, in order
    dbCalls,     \* history: the durations passed to visionDBQuery, in order
    dbErrCalls,  \* history: the number of visionDBError calls
    errCalls     \* history: the ErrorLog of every visionError call, in order

vars == <<stats, heap, now, snap, returned, edits, task, obs,
          reqCalls, dbCalls, dbErrCalls, errCalls>>

\* The address of the array the constructor creates (main.ts:16).
StatsArr == "lastErrors@16"

\* method / path not supplied (undefined).
Absent == "<undefined>"

\* The durations a caller passes (any number is accepted, main.ts:30, 72).
Durations == {-25, 0, 50}

\* The arguments of visionError a caller passes: (err.message, method, path).
ErrorInputs ==
    { [message |-> "boom", method |-> Absent, path |-> "/a"],
      [message |-> "", method |-> "GET", path |-> ""] }
\* The one argument triple used where the log is driven past its capacity.
LogInputs == { [message |-> "boom", method |-> Absent, path |-> "/a"] }

Tasks == {"t1", "t2"}
\* What a task passes to the update operations.
TaskDurations == {50}
TaskError == [message |-> "boom", method |-> "GET", path |-> "/a"]

NoReturn == [state |-> "none"]
\* The observer has noted nothing: atCall is <<>> or holds Stats as it was
\* at the call in flight, lastSeen holds the counter parts of the last
\* responses (two at most) returned since the last update.
NoObs == [atCall |-> <<>>, lastSeen |-> <<>>]
Undefined == <<>>
IdleSnap ==
    [pc |-> "idle", invoked |-> <<>>,
     cpuUsage |-> Undefined, memoryUsage |-> Undefined, networkRecv |-> Undefined,
     cpu |-> Undefined, memory |-> Undefined, network |-> Undefined]

\* -------------------------------------------------------------- operations

\* constructor (main.ts:8-18)
NewStats ==
    [requestCount |-> 0, errorCount |-> 0, totalLatency |-> 0,
     dbQueryCount |-> 0, dbErrorCount |-> 0, dbTotalLatency |-> 0,
     lastErrors |-> StatsArr]

\* visionRequest (main.ts:30-33) on the Stats record s.
StatsAfterRequestAssign(s, duration) ==
    [s EXCEPT !.requestCount = @ + 1, !.totalLatency = duration]
StatsAfterRequestNoCount(s, duration) ==
    [s EXCEPT !.totalLatency = @ + duration]
StatsAfterRequest(s, duration) ==
    [s EXCEPT !.requestCount = @ + 1, !.totalLatency = @ + duration]

\* visionDBQuery (main.ts:72-75)
StatsAfterDBQuery(s, duration) ==
    [s EXCEPT !.dbQueryCount = @ + 1, !.dbTotalLatency = @ + duration]

\* visionDBError counting the error as a request error as well.
StatsAfterDBErrorBoth(s) ==
    [s EXCEPT !.dbErrorCount = @ + 1, !.errorCount = @ + 1]

\* visionDBError with -- for ++.
StatsAfterDBErrorDecrement(s) == [s EXCEPT !.dbErrorCount = @ - 1]
\* visionDBError (main.ts:82-84)
StatsAfterDBError(s) == [s EXCEPT !.dbErrorCount = @ + 1]

\* x ? x : '' for an optional string (main.ts:51-52): undefined and the
\* empty string are falsy.
OrEmpty(x) == IF x = Absent \/ x = "" THEN "" ELSE x

\* The ErrorLog visionError builds (main.ts:49-54).
ErrorLogOf(in, time) ==
    [timestamp |-> time, method |-> OrEmpty(in.method),
     path |-> OrEmpty(in.path), error |-> in.message]

\* The error log after visionError's shift and push (main.ts:57-61).
LogAfterErrorLate(log, errLog) ==
    Append(IF Len(log) > Capacity THEN Tail(log) ELSE log, errLog)
LogAfterError(log, errLog) ==
    Append(IF Len(log) >= Capacity THEN Tail(log) ELSE log, errLog)

\* visionError (main.ts:47) on the counters.
StatsAfterError(s) == [s EXCEPT !.errorCount = @ + 1]

\* A step that delivers no settlement of getVisionStats.
Silent == returned' = NoReturn

\* The update operations; each leaves `task` and `obs` to the step that
\* calls it.

visionRequest(duration) ==
    /\ stats' = StatsAfterRequest(stats, duration)
    /\ reqCalls' = Append(reqCalls, duration)
    /\ Silent
    /\ UNCHANGED <<heap, now, snap, edits, dbCalls, dbErrCalls, errCalls>>

\* new Date() reads the clock; the clock is modelled as one tick later at
\* every recording, so that the entries of the log are told apart.
visionError(in) ==
    LET errLog == ErrorLogOf(in, now + 1)
    IN  /\ stats' = StatsAfterError(stats)
        /\ heap' = [heap EXCEPT ![stats.lastErrors] = LogAfterError(@, errLog)]
        /\ now' = now + 1
        /\ errCalls' = Append(errCalls, errLog)
        /\ Silent
        /\ UNCHANGED <<snap, edits, reqCalls, dbCalls, dbErrCalls>>

visionDBQuery(duration) ==
    /\ stats' = StatsAfterDBQuery(stats, duration)
    /\ dbCalls' = Append(dbCalls, duration)
    /\ Silent
    /\ UNCHANGED <<heap, now, snap, edits, reqCalls, dbErrCalls, errCalls>>

visionDBError ==
    /\ stats' = StatsAfterDBError(stats)
    /\ dbErrCalls' = dbErrCalls + 1
    /\ Silent
    /\ UNCHANGED <<heap, now, snap, edits, reqCalls, dbCalls, errCalls>>

\* --------------------------------------------------- system-metric queries

Chars125 == <<"1", "2", ".", "5", "\n">>
Chars524288 == <<"5", "2", "4", "2", "8", "8", "\n">>

\* What exec hands the callback of getCPUUsage: an error, or the output of
\* the pipeline (main.ts:92).
CpuExec ==
    { [error |-> TRUE, stdout |-> <<>>],
      [error |-> FALSE, stdout |-> Chars125],
      [error |-> FALSE, stdout |-> <<"\n">>] }

\* What os.totalmem() and os.freemem() give (main.ts:106-107).
MemReadings == { [total |-> 8, free |-> 2] }

\* What exec hands the callback of getNetworkStats (main.ts:120).
NetExec ==
    { [error |-> TRUE, stdout |-> <<>>],
      [error |-> FALSE, stdout |-> Chars524288],
      [error |-> FALSE, stdout |-> <<"n", "/", "a", "\n">>] }

Fulfilled(v) == [state |-> "fulfilled", value |-> v, reason |-> ""]
Rejected(why) == [state |-> "rejected", value |-> NaN, reason |-> why]

\* getCPUUsage (main.ts:88-100)
getCPUUsage(res) ==
    IF res.error
    THEN Rejected("Failed to get CPU usage")
    ELSE Fulfilled(ParseFloat(res.stdout))

\* getMemoryUsage (main.ts:104-111)
getMemoryUsage(os) ==
    Fulfilled(Times(Quot(os.total - os.free, os.total), 100))

\* getNetworkStats (main.ts:118-127)
getNetworkStats(res) ==
    IF res.error
    THEN Rejected("Failed to get network stats")
    ELSE Fulfilled(Over(ParseFloat(res.stdout), 1024 * 1024))

\* promise.catch(err => { console.error(...); return 0 }) (main.ts:135-150)
CatchNoReturn(p) == IF p.state = "rejected" THEN Fulfilled(Undefined) ELSE p
CatchRethrow(p) == p
Catch(p) == IF p.state = "rejected" THEN Fulfilled(Zero) ELSE p

\* requests.successRate (main.ts:156-161)
SuccessRateErrorRate(s) ==
    IF s.requestCount = 0
    THEN Zero
    ELSE Times(Quot(s.errorCount, s.requestCount), 100)
SuccessRateUnguarded(s) ==
    Times(Quot(s.requestCount - s.errorCount, s.requestCount), 100)

\* requests.successRate kept from going below 0.
SuccessRateClamped(s) ==
    IF s.requestCount = 0 \/ s.errorCount > s.requestCount
    THEN Zero
    ELSE Times(Quot(s.requestCount - s.errorCount, s.requestCount), 100)
SuccessRate(s) ==
    IF s.requestCount = 0
    THEN Zero
    ELSE Times(Quot(s.requestCount - s.errorCount, s.requestCount), 100)

\* requests.avgLatencyMs (main.ts:162-165)
RequestAvgLatency(s) ==
    IF s.requestCount = 0
    THEN Zero
    ELSE Quot(s.totalLatency, s.requestCount)

\* database.avgLatencyMs (main.ts:170-173)
DBAvgLatencyByRequests(s) ==
    IF s.dbQueryCount = 0
    THEN Zero
    ELSE Quot(s.dbTotalLatency, s.requestCount)
DBAvgLatency(s) ==
    IF s.dbQueryCount = 0
    THEN Zero
    ELSE Quot(s.dbTotalLatency, s.dbQueryCount)

\* The object getVisionStats returns (main.ts:152-181), read from Stats s;
\* its lastErrors is the reference this.stats.lastErrors itself.
Response(s, cpuUsage, memoryUsage, networkRecv) ==
    [requests |->
        [total |-> s.requestCount,
         errors |-> s.errorCount,
         successRate |-> SuccessRate(s),
         avgLatencyMs |-> RequestAvgLatency(s)],
     database |->
        [totalQueries |-> s.dbQueryCount,
         errors |-> s.dbErrorCount,
         avgLatencyMs |-> DBAvgLatency(s)],
     system |->
        [cpuUsage |-> cpuUsage,
         memoryUsage |-> memoryUsage,
         networkRecv |-> networkRecv],
     lastErrors |-> s.lastErrors]

\* ---------------------------------------------------------- getVisionStats

Frame == UNCHANGED <<stats, heap, now, edits, task, reqCalls, dbCalls, dbErrCalls, errCalls>>

\* An await of a promise that rejected: the async function rejects.
Throws(p) ==
    /\ snap' = IdleSnap
    /\ returned' = [state |-> "rejected", reason |-> p.reason]

\* getVisionStats counting itself as a request of duration 0.
getVisionStatsCounted ==
    /\ snap.pc = "idle"
    /\ snap' = [IdleSnap EXCEPT !.pc = "cpu", !.invoked = <<"cpu">>]
    /\ Silent
    /\ stats' = StatsAfterRequest(stats, 0)
    /\ UNCHANGED <<heap, now, edits, task, reqCalls, dbCalls, dbErrCalls, errCalls>>
\* The call: getCPUUsage is invoked and awaited (main.ts:134-135).
getVisionStats ==
    /\ snap.pc = "idle"
    /\ snap' = [IdleSnap EXCEPT !.pc = "cpu", !.invoked = <<"cpu">>]
    /\ Silent
    /\ Frame

\* getVisionStats giving up at the first failed query: it resolves with
\* zeros for the metrics and invokes no further query.
CpuSettlesGivesUp(res) ==
    /\ snap.pc = "cpu"
    /\ LET p == getCPUUsage(res)
           a == Catch(p)
       IN  IF p.state = "rejected"
           THEN /\ snap' = IdleSnap
                /\ returned' =
                     [state |-> "fulfilled",
                      value |-> Response(stats, Zero, Zero, Zero),
                      queries |-> [cpu |-> p, memory |-> snap.memory,
                                   network |-> snap.network],
                      invoked |-> snap.invoked]
           ELSE /\ snap' = [snap EXCEPT !.pc = "memory", !.cpu = p,
                                        !.cpuUsage = a.value,
                                        !.invoked = Append(@, "memory")]
                /\ Silent
    /\ Frame
\* The CPU query settles; getMemoryUsage is invoked and awaited
\* (main.ts:135-140).
CpuSettles(res) ==
    /\ snap.pc = "cpu"
    /\ LET p == getCPUUsage(res)
           a == Catch(p)
       IN  IF a.state = "rejected"
           THEN Throws(a)
           ELSE /\ snap' = [snap EXCEPT !.pc = "memory", !.cpu = p,
                                        !.cpuUsage = a.value,
                                        !.invoked = Append(@, "memory")]
                /\ Silent
    /\ Frame

\* The memory query settles; getNetworkStats is invoked and awaited
\* (main.ts:140-145).
MemorySettles(os) ==
    /\ snap.pc = "memory"
    /\ LET p == getMemoryUsage(os)
           a == Catch(p)
       IN  IF a.state = "rejected"
           THEN Throws(a)
           ELSE /\ snap' = [snap EXCEPT !.pc = "network", !.memory = p,
                                        !.memoryUsage = a.value,
                                        !.invoked = Append(@, "network")]
                /\ Silent
    /\ Frame

\* getVisionStats reading errorCount before its awaits and the other
\* fields after them.
NetworkSettlesTorn(res) ==
    /\ snap.pc = "network"
    /\ LET p == getNetworkStats(res)
           a == Catch(p)
           torn == [stats EXCEPT !.errorCount = obs.atCall[1].errorCount]
       IN  /\ snap' = IdleSnap
           /\ returned' =
                [state |-> "fulfilled",
                 value |-> Response(torn, snap.cpuUsage, snap.memoryUsage, a.value),
                 queries |-> [cpu |-> snap.cpu, memory |-> snap.memory, network |-> p],
                 invoked |-> snap.invoked]
    /\ Frame

\* getVisionStats building the response from this.stats as it was at the
\* call.
NetworkSettlesAtCall(res) ==
    /\ snap.pc = "network"
    /\ LET p == getNetworkStats(res)
           a == Catch(p)
       IN  /\ snap' = IdleSnap
           /\ returned' =
                [state |-> "fulfilled",
                 value |-> Response(obs.atCall[1], snap.cpuUsage, snap.memoryUsage, a.value),
                 queries |-> [cpu |-> snap.cpu, memory |-> snap.memory, network |-> p],
                 invoked |-> snap.invoked]
    /\ Frame

\* getVisionStats starting its queries over when the last one failed.
NetworkSettlesRetry(res) ==
    /\ snap.pc = "network"
    /\ LET p == getNetworkStats(res)
           a == Catch(p)
       IN  IF p.state = "rejected"
           THEN /\ snap' = [IdleSnap EXCEPT !.pc = "cpu", !.invoked = <<"cpu">>]
                /\ Silent
           ELSE /\ snap' = IdleSnap
                /\ returned' =
                     [state |-> "fulfilled",
                      value |-> Response(stats, snap.cpuUsage, snap.memoryUsage, a.value),
                      queries |-> [cpu |-> snap.cpu, memory |-> snap.memory, network |-> p],
                      invoked |-> snap.invoked]
    /\ Frame
\* The network query settles; the response is built from this.stats as it
\* is now and the call resolves (main.ts:145-182).
NetworkSettles(res) ==
    /\ snap.pc = "network"
    /\ LET p == getNetworkStats(res)
           a == Catch(p)
       IN  IF a.state = "rejected"
           THEN Throws(a)
           ELSE /\ snap' = IdleSnap
                /\ returned' =
                     [state |-> "fulfilled",
                      value |-> Response(stats, snap.cpuUsage, snap.memoryUsage, a.value),
                      queries |-> [cpu |-> snap.cpu, memory |-> snap.memory, network |-> p],
                      invoked |-> snap.invoked]
    /\ Frame

\* ------------------------------------------------------------- the caller

\* An ErrorLog of the caller's own making.
ForeignEntry == [timestamp |-> 0, method |-> "", path |-> "", error |-> "foreign"]

RECURSIVE Reverse(_)
Reverse(s) == IF s = <<>> THEN <<>> ELSE Append(Reverse(Tail(s)), Head(s))

\* The caller mutates, in place, the lastErrors array of the response it
\* has just been handed: the array becomes `edited`.
CallerEdit(edited) ==
    /\ returned.state = "fulfilled"
    /\ heap' = [heap EXCEPT ![returned.value.lastErrors] = edited]
    /\ edits' = edits + 1
    /\ UNCHANGED <<stats, now, snap, returned, task, obs, reqCalls, dbCalls, dbErrCalls, errCalls>>

\* response.lastErrors.push(entry)
PushForeign(a) == Append(a, ForeignEntry)
CallerPushes ==
    /\ returned.state = "fulfilled"
    /\ CallerEdit(PushForeign(heap[returned.value.lastErrors]))

\* response.lastErrors.pop()
Popped(a) == IF a = <<>> THEN a ELSE SubSeq(a, 1, Len(a) - 1)
CallerPops ==
    /\ returned.state = "fulfilled"
    /\ CallerEdit(Popped(heap[returned.value.lastErrors]))

\* response.lastErrors.reverse()
CallerReverses ==
    /\ returned.state = "fulfilled"
    /\ CallerEdit(Reverse(heap[returned.value.lastErrors]))

\* --------------------------------------------------------------- the tasks

\* A task calls, MaxIter times over, visionRequest, visionDBQuery,
\* visionError and visionDBError, yielding to the others between the calls.
TaskStep(t) ==
    /\ task[t].iter < MaxIter
    /\ UNCHANGED obs
    /\ \/ /\ task[t].pc = "request"
          /\ \E d \in TaskDurations : visionRequest(d)
          /\ task' = [task EXCEPT ![t].pc = "dbquery"]
       \/ /\ task[t].pc = "dbquery"
          /\ \E d \in TaskDurations : visionDBQuery(d)
          /\ task' = [task EXCEPT ![t].pc = "error"]
       \/ /\ task[t].pc = "error"
          /\ visionError(TaskError)
          /\ task' = [task EXCEPT ![t].pc = "dberror"]
       \/ /\ task[t].pc = "dberror"
          /\ visionDBError
          /\ task' = [task EXCEPT ![t] = [pc |-> "request", iter |-> @.iter + 1]]

\* ---------------------------------------------------------- specifications

Init ==
    /\ stats = NewStats
    /\ heap = [a \in {StatsArr} |-> <<>>]
    /\ now = 0
    /\ snap = IdleSnap
    /\ returned = NoReturn
    /\ edits = 0
    /\ task = [t \in Tasks |-> [pc |-> "request", iter |-> 0]]
    /\ obs = NoObs
    /\ reqCalls = <<>>
    /\ dbCalls = <<>>
    /\ dbErrCalls = 0
    /\ errCalls = <<>>

\* A caller outside the tasks calls an update operation.
CallRequest(d) == visionRequest(d) /\ UNCHANGED <<task, obs>>
CallDBQuery(d) == visionDBQuery(d) /\ UNCHANGED <<task, obs>>
CallDBError == visionDBError /\ UNCHANGED <<task, obs>>
CallError(in) == visionError(in) /\ UNCHANGED <<task, obs>>

\* The steps of a getVisionStats call.
Snapshot ==
    \/ getVisionStats /\ UNCHANGED obs
    \/ \E res \in CpuExec : CpuSettles(res) /\ UNCHANGED obs
    \/ \E os \in MemReadings : MemorySettles(os) /\ UNCHANGED obs
    \/ \E res \in NetExec : NetworkSettles(res) /\ UNCHANGED obs

\* The public operations of one aggregator, each update operation called
\* a few times.
Next ==
    \/ \E d \in Durations : stats.requestCount < MaxRequests /\ CallRequest(d)
    \/ \E d \in Durations : stats.dbQueryCount < MaxDBQueries /\ CallDBQuery(d)
    \/ stats.dbErrorCount < MaxDBErrors /\ CallDBError
    \/ \E in \in ErrorInputs : stats.errorCount < MaxErrors /\ CallError(in)
    \/ Snapshot

Spec == Init /\ [][Next]_vars

\* The public operations with the error log driven past its capacity.
NextLog ==
    \/ \E d \in Durations : stats.requestCount < MaxLogOther /\ CallRequest(d)
    \/ \E d \in Durations : stats.dbQueryCount < MaxLogOther /\ CallDBQuery(d)
    \/ stats.dbErrorCount < MaxLogOther /\ CallDBError
    \/ \E in \in LogInputs : stats.errorCount < MaxLogErrors /\ CallError(in)
    \/ Snapshot

SpecLog == Init /\ [][NextLog]_vars

\* The same, with a caller that mutates the lastErrors of a response.
NextCaller ==
    \/ NextLog
    \/ edits < MaxCallerEdits /\ CallerPushes
    \/ edits < MaxCallerEdits /\ CallerPops
    \/ edits < MaxCallerEdits /\ CallerReverses

SpecCaller == Init /\ [][NextCaller]_vars

\* Concurrent tasks calling the update operations, and snapshots.
NextTasks ==
    \/ \E t \in Tasks : TaskStep(t)
    \/ Snapshot

SpecTasks == Init /\ [][NextTasks]_vars

\* The completion of each query of a call in flight.
CpuCompletes == \E res \in CpuExec : CpuSettles(res) /\ UNCHANGED obs
MemoryCompletes == \E os \in MemReadings : MemorySettles(os) /\ UNCHANGED obs
NetworkCompletes == \E res \in NetExec : NetworkSettles(res) /\ UNCHANGED obs

\* The tasks and the snapshots, every query that has been invoked
\* eventually completing: exec runs its callback when the command ends
\* (main.ts:90, 120) and the memory reading is synchronous (main.ts:105-110).
\* Nothing obliges the tasks or the callers of getVisionStats to go on.
SpecLive ==
    /\ Init
    /\ [][NextTasks]_vars
    /\ WF_vars(CpuCompletes)
    /\ WF_vars(MemoryCompletes)
    /\ WF_vars(NetworkCompletes)
\* The states a longer run of the update operations reaches: the operations
\* replayed on a drawn history of calls.
Repeat(d, n) == [i \in 1..n |-> d]

RECURSIVE ReplayRequests(_, _)
ReplayRequests(s, ds) ==
    IF ds = <<>> THEN s ELSE ReplayRequests(StatsAfterRequest(s, Head(ds)), Tail(ds))

RECURSIVE ReplayDBQueries(_, _)
ReplayDBQueries(s, ds) ==
    IF ds = <<>> THEN s ELSE ReplayDBQueries(StatsAfterDBQuery(s, Head(ds)), Tail(ds))

RECURSIVE ReplayDBErrors(_, _)
ReplayDBErrors(s, n) ==
    IF n = 0 THEN s ELSE ReplayDBErrors(StatsAfterDBError(s), n - 1)

RECURSIVE ReplayErrors(_, _)
ReplayErrors(s, n) ==
    IF n = 0 THEN s ELSE ReplayErrors(StatsAfterError(s), n - 1)

RECURSIVE ReplayLog(_, _)
ReplayLog(log, es) ==
    IF es = <<>> THEN log ELSE ReplayLog(LogAfterError(log, Head(es)), Tail(es))

InitRequestCounts == {0, 1, 10}
InitDBQueryCounts == {0, 4}
InitDBErrorCounts == {0, 1}
InitErrorCounts == {0, 2, 11}

InitReached ==
    /\ \E d \in Durations, n \in InitRequestCounts : reqCalls = Repeat(d, n)
    /\ \E d \in Durations, n \in InitDBQueryCounts : dbCalls = Repeat(d, n)
    /\ dbErrCalls \in InitDBErrorCounts
    /\ \E in \in LogInputs, n \in InitErrorCounts :
          errCalls = [i \in 1..n |-> ErrorLogOf(in, i)]
    /\ now = Len(errCalls)
    /\ stats = ReplayErrors(ReplayDBErrors(ReplayDBQueries(
                 ReplayRequests(NewStats, reqCalls), dbCalls), dbErrCalls), Len(errCalls))
    /\ heap = [a \in {StatsArr} |-> ReplayLog(<<>>, errCalls)]
    /\ snap = IdleSnap
    /\ returned = NoReturn
    /\ edits = 0
    /\ task = [t \in Tasks |-> [pc |-> "request", iter |-> 0]]
    /\ obs = NoObs

\* The public operations from the states a longer run reaches.
SpecStats == InitReached /\ [][Next]_vars

\* The counter-derived part of a response, its lastErrors read in heap h.
CounterPart(resp, h) ==
    [requests |-> resp.requests, database |-> resp.database,
     lastErrors |-> h[resp.lastErrors]]

\* An update operation, observed: a response seen before it is no longer
\* the latest state's, and Stats at the call is kept while the call lasts.
Noted ==
    /\ obs' = [atCall |-> IF snap.pc = "idle" THEN <<>> ELSE obs.atCall,
               lastSeen |-> <<>>]
    /\ UNCHANGED task

\* The call of getVisionStats, observed: Stats as it is at the call.
ObservedCall == getVisionStats /\ obs' = [obs EXCEPT !.atCall = <<stats>>]

\* The return of getVisionStats, observed: the response's counter part.
ObservedReturn(res) ==
    /\ NetworkSettles(res)
    /\ obs' = [obs EXCEPT !.lastSeen =
                  IF returned'.state = "fulfilled"
                  THEN Append(IF Len(@) = 2 THEN Tail(@) ELSE @,
                              CounterPart(returned'.value, heap'))
                  ELSE <<>>]

\* What a caller passes in SpecObserved.
ObservedDurations == {50}

\* The public operations with an observer of the snapshots.
NextObserved ==
    \/ \E d \in ObservedDurations :
          stats.requestCount < MaxObserved /\ visionRequest(d) /\ Noted
    \/ \E d \in ObservedDurations :
          stats.dbQueryCount < MaxObserved /\ visionDBQuery(d) /\ Noted
    \/ stats.dbErrorCount < MaxObserved /\ visionDBError /\ Noted
    \/ \E in \in LogInputs :
          stats.errorCount < MaxObserved /\ visionError(in) /\ Noted
    \/ ObservedCall
    \/ \E res \in CpuExec : CpuSettles(res) /\ UNCHANGED obs
    \/ \E os \in MemReadings : MemorySettles(os) /\ UNCHANGED obs
    \/ \E res \in NetExec : ObservedReturn(res)

SpecObserved == Init /\ [][NextObserved]_vars

\* -------------------------------------------------------------- properties

\* The contents of the aggregator's error log.
Log == heap[stats.lastErrors]

\* The last n elements of s, in order.
LastN(s, n) == IF Len(s) <= n THEN s ELSE SubSeq(s, Len(s) - n + 1, Len(s))

Min(a, b) == IF a <= b THEN a ELSE b

RECURSIVE SumSeq(_)
SumSeq(s) == IF s = <<>> THEN 0 ELSE Head(s) + SumSeq(Tail(s))

\* The response of the getVisionStats call that has just resolved.
Resp == returned.value

C2_LogAtMostTen == Len(Log) <= Capacity

\* C3: the lastErrors of every snapshot is what the recorded errors alone
\* make it, whatever the caller did to the lastErrors of earlier snapshots.
C3_SnapshotUnaffectedByCaller ==
    [][(returned.state = "none" /\ returned'.state = "fulfilled")
         => heap'[returned'.value.lastErrors] = LastN(errCalls', Capacity)]_vars

\* C4: after any N calls visionRequest(d_i), interleaved with the other
\* operations, requestCount is N and totalLatency is the sum of the d_i.
C4_RequestTotals ==
    /\ stats.requestCount = Len(reqCalls)
    /\ stats.totalLatency = SumSeq(reqCalls)

\* Two requests of different durations, with an error and a database query
\* recorded as well.
C4_Witness ==
    /\ Len(reqCalls) = 2
    /\ reqCalls[1] # reqCalls[2]
    /\ stats.totalLatency = 25
    /\ errCalls # <<>>
    /\ dbCalls # <<>>

\* The calls of visionRequest the tasks have made so far.
RECURSIVE RequestsMade(_)
RequestsMade(ts) ==
    IF ts = {}
    THEN 0
    ELSE LET t == CHOOSE x \in ts : TRUE
         IN  task[t].iter + (IF task[t].pc = "request" THEN 0 ELSE 1)
               + RequestsMade(ts \ {t})

AllTasksDone == \A t \in Tasks : task[t].iter = MaxIter

FieldOf(q) == IF q.state = "fulfilled" THEN q.value ELSE Zero

\* C6: each of cpuUsage, memoryUsage and networkRecv is the value its own
\* query returned if that query succeeded and 0 if it failed, whatever the
\* other two queries did.
C6_EachMetricIndependent ==
    returned.state = "fulfilled" =>
        /\ Resp.system.cpuUsage = FieldOf(returned.queries.cpu)
        /\ Resp.system.memoryUsage = FieldOf(returned.queries.memory)
        /\ Resp.system.networkRecv = FieldOf(returned.queries.network)

\* Exactly one query failed (the CPU query): its field is 0 and the other
\* two carry the values of their queries.
C6_Witness ==
    /\ returned.state = "fulfilled"
    /\ returned.queries.cpu.state = "rejected"
    /\ returned.queries.memory.state = "fulfilled"
    /\ returned.queries.network.state = "fulfilled"
    /\ Resp.system.cpuUsage = Zero
    /\ Resp.system.memoryUsage = <<75, 1>>
    /\ Resp.system.networkRecv = <<1, 2>>

IsNumber(x) == x \in Seq(Int) /\ Len(x) = 2

\* C7: getVisionStats never rejects: whatever the state and the outcomes of
\* the queries, it resolves with a complete MonitoringResponse.
C7_NeverRejects ==
    /\ returned.state # "rejected"
    /\ returned.state = "fulfilled" =>
         /\ DOMAIN Resp = {"requests", "database", "system", "lastErrors"}
         /\ DOMAIN Resp.requests = {"total", "errors", "successRate", "avgLatencyMs"}
         /\ DOMAIN Resp.database = {"totalQueries", "errors", "avgLatencyMs"}
         /\ DOMAIN Resp.system = {"cpuUsage", "memoryUsage", "networkRecv"}
         /\ \A f \in DOMAIN Resp.system : IsNumber(Resp.system[f])
         /\ Resp.lastErrors \in DOMAIN heap

\* The CPU query and the network query both failed and the call resolved.
C7_Witness ==
    /\ returned.state = "fulfilled"
    /\ returned.queries.cpu.state = "rejected"
    /\ returned.queries.network.state = "rejected"
    /\ stats.errorCount > 0

\* C8: successRate is 0 when requests.total is 0 and otherwise
\* (total - errors) / total * 100 on the counters the snapshot reports;
\* total 10 and errors 2 give 80.
C8_SuccessRate ==
    returned.state = "fulfilled" =>
        /\ Resp.requests.total = stats.requestCount
        /\ Resp.requests.errors = stats.errorCount
        /\ Resp.requests.successRate =
             IF Resp.requests.total = 0
             THEN Zero
             ELSE Quot((Resp.requests.total - Resp.requests.errors) * 100,
                       Resp.requests.total)
        /\ (Resp.requests.total = 10 /\ Resp.requests.errors = 2)
             => Resp.requests.successRate = <<80, 1>>

\* A snapshot with requestCount 10 and errorCount 2.
C8_Witness ==
    /\ returned.state = "fulfilled"
    /\ Resp.requests.total = 10
    /\ Resp.requests.errors = 2
    /\ Resp.requests.successRate = <<80, 1>>

\* C9: each avgLatencyMs is its accumulated latency over its count, and 0
\* when the count is 0; 4 queries of total latency 200 give 50.
C9_AvgLatency ==
    returned.state = "fulfilled" =>
        /\ Resp.requests.avgLatencyMs =
             IF stats.requestCount = 0
             THEN Zero
             ELSE Quot(stats.totalLatency, stats.requestCount)
        /\ Resp.database.avgLatencyMs =
             IF stats.dbQueryCount = 0
             THEN Zero
             ELSE Quot(stats.dbTotalLatency, stats.dbQueryCount)
        /\ (stats.dbQueryCount = 4 /\ stats.dbTotalLatency = 200)
             => Resp.database.avgLatencyMs = <<50, 1>>

\* A snapshot with 4 queries of total latency 200, and requests of a
\* different count.
C9_Witness ==
    /\ returned.state = "fulfilled"
    /\ stats.dbQueryCount = 4
    /\ stats.dbTotalLatency = 200
    /\ Resp.database.avgLatencyMs = <<50, 1>>
    /\ stats.requestCount = 10
    /\ Resp.requests.avgLatencyMs = <<-25, 1>>

NoUpdateCalled ==
    /\ reqCalls = <<>>
    /\ dbCalls = <<>>
    /\ dbErrCalls = 0
    /\ errCalls = <<>>

\* C10: a snapshot of a fresh aggregator, no update operation called before
\* or during it, reports every count, rate and average as 0 and an empty
\* lastErrors.
C10_FreshSnapshot ==
    (returned.state = "fulfilled" /\ NoUpdateCalled) =>
        /\ Resp.requests = [total |-> 0, errors |-> 0,
                            successRate |-> Zero, avgLatencyMs |-> Zero]
        /\ Resp.database = [totalQueries |-> 0, errors |-> 0, avgLatencyMs |-> Zero]
        /\ heap[Resp.lastErrors] = <<>>

\* A fresh aggregator's snapshot has resolved.
C10_Witness ==
    /\ returned.state = "fulfilled"
    /\ NoUpdateCalled
    /\ Resp.requests.successRate = Zero

\* C11: a response that has been returned is a value fixed at that point:
\* no update operation called after the return changes the contents of its
\* lastErrors.
C11_ReturnedResponseImmutable ==
    [][returned.state = "fulfilled"
         => heap'[returned.value.lastErrors] = heap[returned.value.lastErrors]]_vars

\* C12: each update operation changes its own fields only: visionRequest
\* requestCount and totalLatency, visionDBQuery dbQueryCount and
\* dbTotalLatency, visionError errorCount and lastErrors, and visionDBError
\* adds exactly 1 to dbErrorCount and nothing to lastErrors.
C12_UpdatesKeepToTheirFields ==
    [][/\ reqCalls' # reqCalls =>
            /\ stats' = [stats EXCEPT !.requestCount = stats'.requestCount,
                                      !.totalLatency = stats'.totalLatency]
            /\ heap' = heap
       /\ dbCalls' # dbCalls =>
            /\ stats' = [stats EXCEPT !.dbQueryCount = stats'.dbQueryCount,
                                      !.dbTotalLatency = stats'.dbTotalLatency]
            /\ heap' = heap
       /\ errCalls' # errCalls =>
            /\ stats' = [stats EXCEPT !.errorCount = stats'.errorCount]
            /\ heap' = [heap EXCEPT ![stats.lastErrors] = heap'[stats.lastErrors]]
       /\ dbErrCalls' # dbErrCalls =>
            /\ stats' = [stats EXCEPT !.dbErrorCount = stats.dbErrorCount + 1]
            /\ heap' = heap]_vars

\* Each update operation has been called once, visionDBError last of the
\* errors: one database error counted, and the log holds the one entry of
\* visionError.
C12_Witness ==
    /\ dbErrCalls = 1
    /\ stats.dbErrorCount = 1
    /\ Len(reqCalls) = 1
    /\ Len(dbCalls) = 1
    /\ Len(errCalls) = 1
    /\ stats.errorCount = 1
    /\ Log = errCalls

\* C13: every counter-derived field of a response is computed from one
\* single state of Stats, the one the last query's completion finds, also
\* when update operations ran while the call waited for its queries.
C13_SnapshotReadsOneState ==
    returned.state = "fulfilled" =>
        /\ Resp.requests.total = stats.requestCount
        /\ Resp.requests.errors = stats.errorCount
        /\ Resp.requests.successRate = SuccessRate(stats)
        /\ Resp.requests.avgLatencyMs = RequestAvgLatency(stats)
        /\ Resp.database.totalQueries = stats.dbQueryCount
        /\ Resp.database.errors = stats.dbErrorCount
        /\ Resp.database.avgLatencyMs = DBAvgLatency(stats)
        /\ heap[Resp.lastErrors] = Log

\* A request and an error were recorded before the call, and another of
\* each while it waited: the response has the later counts, with the rate
\* that goes with them.
C13_Witness ==
    /\ returned.state = "fulfilled"
    /\ obs.atCall[1].requestCount = 1
    /\ obs.atCall[1].errorCount = 1
    /\ Resp.requests.total = 2
    /\ Resp.requests.errors = 2
    /\ Resp.requests.successRate = Zero

Settled(p) == p # Undefined /\ p.state \in {"fulfilled", "rejected"}

\* C14: every call of getVisionStats invokes all three queries, whatever
\* the outcome of the others, and settles only after all three have
\* completed.
C14_AllThreeQueries ==
    /\ returned.state # "none" =>
         /\ returned.state = "fulfilled"
         /\ returned.invoked = <<"cpu", "memory", "network">>
         /\ Settled(returned.queries.cpu)
         /\ Settled(returned.queries.memory)
         /\ Settled(returned.queries.network)
    /\ snap.pc = "memory" => (Settled(snap.cpu) /\ snap.invoked = <<"cpu", "memory">>)
    /\ snap.pc = "network" =>
         /\ Settled(snap.cpu)
         /\ Settled(snap.memory)
         /\ snap.invoked = <<"cpu", "memory", "network">>

\* The CPU query failed, and the other two were invoked and completed
\* before the call resolved.
C14_Witness ==
    /\ returned.state = "fulfilled"
    /\ returned.queries.cpu.state = "rejected"
    /\ returned.queries.memory.state = "fulfilled"
    /\ returned.queries.network.state = "rejected"
    /\ returned.invoked = <<"cpu", "memory", "network">>

\* Every update operation can be called.
UpdatesCallable ==
    /\ ENABLED (\E d \in Durations : CallRequest(d))
    /\ ENABLED (\E d \in Durations : CallDBQuery(d))
    /\ ENABLED CallDBError
    /\ ENABLED (\E in \in ErrorInputs : CallError(in))

\* C15: when every query that is invoked eventually completes, every call
\* of getVisionStats eventually resolves; a call in flight moves only when
\* a query of its own completes (no timeout, cancellation or retry ends or
\* restarts it), and while it waits the update operations remain callable.
C15_SnapshotTerminates ==
    /\ [](snap.pc # "idle" => <>(snap.pc = "idle" /\ returned.state = "fulfilled"))
    /\ [][(snap.pc # "idle" /\ snap' # snap)
            => \/ snap.pc = "cpu" /\ snap'.pc = "memory" /\ CpuCompletes
               \/ snap.pc = "memory" /\ snap'.pc = "network" /\ MemoryCompletes
               \/ snap.pc = "network" /\ snap'.pc = "idle" /\ NetworkCompletes]_vars
    /\ [](snap.pc # "idle" => UpdatesCallable)

\* A call has resolved after the tasks made all their updates.
C15_Witness ==
    /\ returned.state = "fulfilled"
    /\ AllTasksDone
    /\ returned.queries.network.state = "rejected"

NonNegative(ds) == \A i \in 1..Len(ds) : ds[i] >= 0

\* The six counters of Stats.
Counters(s) ==
    <<s.requestCount, s.totalLatency, s.errorCount,
      s.dbQueryCount, s.dbTotalLatency, s.dbErrorCount>>

\* C16: as long as the durations supplied are non-negative, no operation
\* decreases any of the six counters, and none of them is negative.
C16_CountersNeverDecrease ==
    /\ [](\A i \in 1..6 :
            (NonNegative(reqCalls) /\ NonNegative(dbCalls)) => Counters(stats)[i] >= 0)
    /\ [][(NonNegative(reqCalls') /\ NonNegative(dbCalls'))
            => \A i \in 1..6 : Counters(stats')[i] >= Counters(stats)[i]]_vars

\* Every update operation has been called with non-negative durations, one
\* of them 0, a snapshot in flight: every counter has grown.
C16_Witness ==
    /\ reqCalls = <<50, 0>>
    /\ dbCalls = <<50>>
    /\ Counters(stats) = <<2, 50, 2, 1, 50, 1>>
    /\ snap.pc = "memory"

\* C17: getVisionStats is read-only: none of its steps changes a counter
\* or the contents of lastErrors, and two calls with no update between
\* the return of the first and the return of the second report the same
\* counter-derived fields.
C17_SnapshotReadOnly ==
    /\ [][snap' # snap => (stats' = stats /\ heap' = heap)]_vars
    /\ [](Len(obs.lastSeen) = 2 => obs.lastSeen[1] = obs.lastSeen[2])

\* Two calls have returned after the last update, with counts and an error
\* log to report.
C17_Witness ==
    /\ Len(obs.lastSeen) = 2
    /\ obs.lastSeen[2].requests.total = 2
    /\ obs.lastSeen[2].database.errors = 1
    /\ Len(obs.lastSeen[2].lastErrors) = 2
    /\ returned.state = "fulfilled"

\* The query completed without an exec error, and parseFloat made no
\* number of its output.
Unparsable(q) == q.state = "fulfilled" /\ IsNaN(q.value)

\* C18: when the command of a query runs without error but its output
\* cannot be parsed as a number, the field of that metric in the response
\* is 0, as for any other failure to collect the metric.
C18_UnparsableOutputIsZero ==
    returned.state = "fulfilled" =>
        /\ Unparsable(returned.queries.cpu) => Resp.system.cpuUsage = Zero
        /\ Unparsable(returned.queries.network) => Resp.system.networkRecv = Zero

\* C19: the counter-derived fields of a response are those of Stats when
\* the last query completes: every update called before that moment, those
\* called after the call started included, is counted in the response.
C19_SnapshotReflectsLastCompletion ==
    returned.state = "fulfilled" =>
        /\ Resp.requests.total = Len(reqCalls)
        /\ Resp.requests.errors = Len(errCalls)
        /\ Resp.requests.avgLatencyMs =
             IF reqCalls = <<>> THEN Zero ELSE Quot(SumSeq(reqCalls), Len(reqCalls))
        /\ Resp.database.totalQueries = Len(dbCalls)
        /\ Resp.database.errors = dbErrCalls
        /\ Resp.database.avgLatencyMs =
             IF dbCalls = <<>> THEN Zero ELSE Quot(SumSeq(dbCalls), Len(dbCalls))
        /\ heap[Resp.lastErrors] = LastN(errCalls, Capacity)

\* The call was made on a fresh aggregator and every update operation was
\* called while it waited: the response counts them all.
C19_Witness ==
    /\ returned.state = "fulfilled"
    /\ obs.atCall = <<NewStats>>
    /\ Resp.requests.total = 2
    /\ Resp.requests.errors = 1
    /\ Resp.database.totalQueries = 1
    /\ Resp.database.errors = 1
    /\ Len(heap[Resp.lastErrors]) = 1

\* Comparisons of a number <<n, d>>, d > 0, with an integer.
AtMost(a, k) == a[2] > 0 /\ a[1] <= k * a[2]
AtLeast(a, k) == a[2] > 0 /\ a[1] >= k * a[2]

\* C20: the successRate of every response is at most 100; it is at least
\* 0 exactly when errorCount <= requestCount or requestCount = 0, so with
\* errorCount > requestCount > 0 it is negative.
C20_SuccessRateRange ==
    returned.state = "fulfilled" =>
        /\ AtMost(Resp.requests.successRate, 100)
        /\ AtLeast(Resp.requests.successRate, 0)
             <=> (stats.errorCount <= stats.requestCount \/ stats.requestCount = 0)

\* More errors than requests: 11 errors to 10 requests give -10.
C20_Witness ==
    /\ returned.state = "fulfilled"
    /\ stats.requestCount = 10
    /\ stats.errorCount = 11
    /\ Resp.requests.successRate = <<-10, 1>>

====
